---- MODULE Spec2Model ----
(***************************************************************************)
(* The connection upgrader of libp2p (packages/libp2p/src/upgrader.ts):    *)
(* upgradeInbound / upgradeOutbound as a task that runs from one await to  *)
(* the next, the Connection assembled by _createConnection with its        *)
(* timeline Proxy, the per-stream negotiation tasks of newStream and       *)
(* onIncomingStream, and the dial of the TCP transport that calls          *)
(* upgradeOutbound.                                                        *)
(*                                                                         *)
(* JavaScript runs each task to its next await before anything else runs:  *)
(* an action is one such segment.  `awaiting` tells whether the upgrade    *)
(* task is suspended; timers, transport events and callers act only then.  *)
(***************************************************************************)
EXTENDS Naturals, Sequences, FiniteSets

VARIABLES
    direction,      \* which of upgradeInbound / upgradeOutbound is called
    opts,           \* UpgraderOptions of the call
    components,     \* DefaultUpgraderComponents + UpgraderInit
    registrar,      \* protocol -> handler options (Registrar)
    pc,             \* the stage the upgrade task is in
    awaiting,       \* TRUE while the upgrade task is suspended at an await
    error,          \* the error the upgrade rejected with
    remotePeer,     \* local `remotePeer`
    cryptoProtocol, \* local `cryptoProtocol`
    muxerFactory,   \* local `muxerFactory`
    timer,          \* AbortSignal.timeout(inboundUpgradeTimeout) + onAbort
    afterUpgradeInboundCalls, \* calls of connectionManager.afterUpgradeInbound
    maConn,         \* the raw MultiaddrConnection
    connection,     \* the Connection built by _createConnection
    muxer,          \* the StreamMuxer of the connection
    closePc,        \* where the connection's close() is
    notifiers,      \* timeline-trap tasks waiting for connection.close()
    events,         \* observable calls and dispatches, in order
    streams,        \* muxer.streams and the negotiation task of each
    peerStore,      \* protocols merged for remotePeer
    userCalls,      \* close()/abort() calls made by the application
    dial            \* TCP.dial: its position, options.signal, its error,
                    \* the socket of _connect and its listeners

vars == <<direction, opts, components, registrar, pc, awaiting, error,
          remotePeer, cryptoProtocol, muxerFactory, timer,
          afterUpgradeInboundCalls, maConn, connection, muxer, closePc,
          notifiers, events, streams, peerStore, userCalls, dial>>

upgradeVars == <<pc, awaiting, error, remotePeer, cryptoProtocol, muxerFactory,
                 timer, afterUpgradeInboundCalls>>
configVars == <<direction, opts, components, registrar>>
worldVars == <<maConn, connection, muxer, closePc, notifiers, events, streams>>

----------------------------------------------------------------------------
(* Bounds of the model *)

\* streams of either direction opened on one connection
MaxStreams == 2
\* inbound streams the muxer reports when only inbound streams are routed
MaxRouted == 3
\* close()/abort() calls the application makes on one connection
MaxUserCalls == 2

----------------------------------------------------------------------------
(* Values *)

Null == "null"
PeerA == "peerA"
PeerB == "peerB"

NOISE == "/noise"
TLS == "/tls/1.0.0"
YAMUX == "/yamux/1.0.0"
MPLEX == "/mplex/6.7.0"
ECHO == "/echo/1.0.0"
PING == "/ping/1.0.0"
Protocols == {ECHO, PING}

DEFAULT_MAX_INBOUND_STREAMS == 32
DEFAULT_MAX_OUTBOUND_STREAMS == 32

NoError == [name |-> Null, message |-> ""]

\* the upgrader is called by a transport that is not modelled
NoDial ==
    [pc |-> Null, signal |-> Null, error |-> NoError, socket |-> Null,
     listeners |-> FALSE, settles |-> 0, timedOut |-> FALSE]
Err(n, m) == [name |-> n, message |-> m]

InboundGaterMethods ==
    {"denyInboundConnection", "denyInboundEncryptedConnection",
     "denyInboundUpgradedConnection"}
OutboundGaterMethods ==
    {"denyOutboundConnection", "denyOutboundEncryptedConnection",
     "denyOutboundUpgradedConnection"}
Checkpoints ==
    {"acceptIncomingConnection"} \cup InboundGaterMethods \cup OutboundGaterMethods

NoConnection ==
    [status |-> Null, direction |-> Null, remotePeer |-> Null,
     encryption |-> Null, multiplexer |-> Null, limits |-> FALSE]

StreamIds == 1 .. MaxRouted
\* an optional number is <<>> (undefined) or <<n>>
Undefined == <<>>
Some(n) == <<n>>

NoStream ==
    [state |-> "absent", direction |-> Null, protocol |-> Null, pc |-> Null,
     selected |-> Null, maxOutboundStreams |-> Undefined,
     error |-> Null, handled |-> FALSE]

Range(s) == {s[i] : i \in 1 .. Len(s)}

----------------------------------------------------------------------------
(* The world the upgrade task, the timers and the callers act on.  The     *)
(* operators below take it as a record and return it changed, so that one  *)
(* action can run several calls in the order the code makes them.          *)

World ==
    [maConn |-> maConn, connection |-> connection, muxer |-> muxer,
     closePc |-> closePc, notifiers |-> notifiers, events |-> events,
     streams |-> streams]

Commit(w) ==
    /\ maConn' = w.maConn
    /\ connection' = w.connection
    /\ muxer' = w.muxer
    /\ closePc' = w.closePc
    /\ notifiers' = w.notifiers
    /\ events' = w.events
    /\ streams' = w.streams

Emit(w, e) == [w EXCEPT !.events = Append(@, e)]

safeDispatchEvent(w, type) == Emit(w, <<"dispatch", type>>)

\* muxer.close() / muxer.abort() settle: the muxer ends with all its streams
MuxerEnd(w) ==
    [w EXCEPT !.muxer = IF @ = Null THEN Null ELSE "closed",
              !.streams = [s \in StreamIds |->
                  IF @[s].state = "open" THEN [@[s] EXCEPT !.state = "closed"]
                  ELSE @[s]]]

\* maConn.close(cause) is called: the transport starts closing
MaConnCloseCall(w, cause) ==
    [w EXCEPT !.maConn.state = IF @ = "open" THEN "closing" ELSE @,
              !.maConn.closeCause = cause]

\* the close function _createConnection hands to createConnection, up to its
\* first await: muxer.close(options) when there is a muxer, else
\* maConn.close(options)
connClose(w) ==
    IF w.muxer # Null
    THEN [w EXCEPT !.closePc = "muxer.close",
                   !.muxer = IF @ = "open" THEN "closing" ELSE @]
    ELSE [MaConnCloseCall(w, NoError) EXCEPT !.closePc = "maConn.close"]

\* Connection.close(): a no-op unless the connection is open
ConnectionClose(w) ==
    IF w.connection.status # "open" THEN w
    ELSE connClose([w EXCEPT !.connection.status = "closing"])

\* the async function of the Proxy's set trap, up to its first await
NotifyClose(w) ==
    IF w.connection.status = "open"
    THEN [ConnectionClose(w) EXCEPT !.notifiers = @ + 1]
    ELSE safeDispatchEvent(w, "connection:close")

\* the first write of timeline.close without the `_timeline.close == null`
\* test of the trap
TimelineSetClose_EveryWrite(w) ==
    LET w1 == IF w.connection # NoConnection THEN NotifyClose(w) ELSE w
    IN  [w1 EXCEPT !.maConn.timelineClose = TRUE]

\* maConn.timeline.close = Date.now(): through the Proxy once
\* _createConnection has installed it
TimelineSetClose(w) ==
    LET w1 == IF w.connection # NoConnection /\ ~w.maConn.timelineClose
              THEN NotifyClose(w) ELSE w
    IN  [w1 EXCEPT !.maConn.timelineClose = TRUE]

\* maConn.abort(err): the transport is torn down at once and records its
\* close time
MaConnAbort(w, err) ==
    TimelineSetClose([w EXCEPT !.maConn.state = "closed",
                               !.maConn.aborted = err.name])

\* the abort function with the muxer aborted before the transport
connAbort_MuxerFirst(w, err) ==
    LET w1 == IF w.muxer # Null
              THEN MuxerEnd(Emit(w, <<"abort", "muxer">>)) ELSE w
    IN  MaConnAbort(Emit(w1, <<"abort", "maConn">>), err)

\* the abort function _createConnection hands to createConnection:
\* maConn.abort(err), then muxer.abort(err) when there is a muxer
connAbort(w, err) ==
    LET w1 == MaConnAbort(Emit(w, <<"abort", "maConn">>), err)
    IN  IF w1.muxer # Null
        THEN MuxerEnd(Emit(w1, <<"abort", "muxer">>)) ELSE w1

\* Connection.abort(err): a no-op once the connection is closed
ConnectionAbort(w, err) ==
    IF w.connection.status = "closed" THEN w
    ELSE LET w1 == connAbort([w EXCEPT !.connection.status = "closing"], err)
             w2 == TimelineSetClose(w1)
         IN  [w2 EXCEPT !.connection.status = "closed"]

\* maConn.close() settles well: the transport is closed and has recorded its
\* close time
MaConnCloseDone(w) ==
    TimelineSetClose([w EXCEPT !.maConn.state = "closed",
                               !.maConn.closeReturned = TRUE])

\* the remote end closes the transport, or the transport fails
MaConnRemoteClose(w) ==
    TimelineSetClose([w EXCEPT !.maConn.state = "closed"])

----------------------------------------------------------------------------
(* The order of the statements of upgradeInbound and upgradeOutbound *)

\* upgradeInbound with the encrypted-connection gater asked after the muxer
\* was negotiated
InboundStages_GateAfterMux ==
    <<"acceptIncomingConnection", "denyInboundConnection", "protect", "encrypt",
      "secure", "multiplex", "denyInboundEncryptedConnection",
      "denyInboundUpgradedConnection", "createConnection">>

InboundStages ==
    <<"acceptIncomingConnection", "denyInboundConnection", "protect", "encrypt",
      "secure", "denyInboundEncryptedConnection", "multiplex",
      "denyInboundUpgradedConnection", "createConnection">>

OutboundStages ==
    <<"denyOutboundConnection", "protect", "encrypt", "secure",
      "denyOutboundEncryptedConnection", "multiplex",
      "denyOutboundUpgradedConnection", "createConnection">>

IndexOf(seq, x) == CHOOSE i \in 1 .. Len(seq) : seq[i] = x

\* the statement that follows `stage`
After(stages, stage) == stages[IndexOf(stages, stage) + 1]

\* the skipped encryption followed by the encrypted-connection gater
AfterEncryption_Gate(stages) == After(stages, "secure")

\* the statement that follows the skipped encryption (the else branch)
AfterEncryption(stages) ==
    After(stages, IF direction = "inbound" THEN "denyInboundEncryptedConnection"
                  ELSE "denyOutboundEncryptedConnection")

Stages == IF direction = "inbound" THEN InboundStages ELSE OutboundStages

Goto(stage) == pc' = stage /\ awaiting' = FALSE
Suspend == awaiting' = TRUE /\ UNCHANGED pc
At(dir, stage) == direction = dir /\ pc = stage /\ ~awaiting
Resumes(dir, stage) == direction = dir /\ pc = stage /\ awaiting

Log(e) == Commit(Emit(World, e))

\* the finally block that leaves the listener on the timeout signal
InboundFinally_KeepListener ==
    /\ UNCHANGED timer
    /\ afterUpgradeInboundCalls' = afterUpgradeInboundCalls + 1

\* the finally block of upgradeInbound
InboundFinally ==
    /\ timer' = IF timer = "armed" THEN "removed" ELSE timer
    /\ afterUpgradeInboundCalls' = afterUpgradeInboundCalls + 1

\* a throw inside the try of upgradeInbound whose release runs only when the
\* upgrade succeeds
InboundThrow_NoRelease(err) ==
    /\ pc' = "thrown" /\ awaiting' = FALSE /\ error' = err
    /\ timer' = IF timer = "armed" THEN "removed" ELSE timer
    /\ UNCHANGED afterUpgradeInboundCalls

\* a throw inside the try of upgradeInbound: the finally block runs
InboundThrow(err) ==
    /\ pc' = "thrown" /\ awaiting' = FALSE /\ error' = err
    /\ InboundFinally

\* shouldBlockConnection that logs the denial and lets the upgrade go on
shouldBlockConnection_NoThrow(connectionType, deny) == FALSE

\* shouldBlockConnection: whether it throws ConnectionInterceptedError, given
\* the answer of the gater method
shouldBlockConnection(connectionType, deny) ==
    connectionType \in components.gater /\ deny

ConnectionInterceptedError(connectionType) ==
    Err("ConnectionInterceptedError", connectionType)

\* the catch of _encryptInbound / _encryptOutbound that throws the error it
\* caught
EncryptionFailedError_Rethrow(err) == err

\* new EncryptionFailedError(err.message)
EncryptionFailedError(err) == Err("EncryptionFailedError", err.message)

\* new MuxerUnavailableError(String(err))
MuxerUnavailableError(err) ==
    Err("MuxerUnavailableError", err.name \o ": " \o err.message)

----------------------------------------------------------------------------
(* _createConnection *)

\* onIncomingStream without the `connection == null` test
onIncomingStreamCall_NoGuard(w, s) ==
    [Emit(w, <<"incoming", "stream">>) EXCEPT
        !.streams[s] = [NoStream EXCEPT !.state = "open",
                                        !.direction = "inbound",
                                        !.pc = "mss.handle"]]

\* the muxer calls onIncomingStream with a new stream s: the callback
\* returns at once while connection is not assigned, else it starts
\* mss.handle with the protocols registered now
onIncomingStreamCall(w, s) ==
    [Emit(w, <<"incoming", "stream">>) EXCEPT
        !.streams[s] = [NoStream EXCEPT
            !.state = "open", !.direction = "inbound",
            !.pc = IF w.connection = NoConnection THEN Null
                   ELSE "mss.handle"]]

\* createStreamMuxer and the piping of the muxer to the upgraded connection;
\* `early` says whether the muxer reports a first stream while it is piped
createStreamMuxer(w, early) ==
    IF muxerFactory = Null THEN w
    ELSE LET w1 == [w EXCEPT !.muxer = "open"]
         IN  IF early THEN onIncomingStreamCall(w1, 1) ELSE w1

\* _createConnection that names the first configured muxer as the
\* connection's multiplexer
_createConnection_ConfiguredMuxer(w, early) ==
    LET w1 == [createStreamMuxer(w, early) EXCEPT
                 !.connection =
                     [status |-> "open", direction |-> direction,
                      remotePeer |-> remotePeer, encryption |-> cryptoProtocol,
                      multiplexer |-> IF components.streamMuxers # <<>>
                                      THEN components.streamMuxers[1]
                                      ELSE Null,
                      limits |-> opts.limits]]
    IN  safeDispatchEvent(w1, "connection:open")

\* _createConnection: the muxer is created and piped when there is a
\* factory, the Connection is built open and connection:open is dispatched
_createConnection(w, early) ==
    LET w1 == [createStreamMuxer(w, early) EXCEPT
                 !.connection =
                     [status |-> "open", direction |-> direction,
                      remotePeer |-> remotePeer, encryption |-> cryptoProtocol,
                      multiplexer |-> muxerFactory, limits |-> opts.limits]]
    IN  safeDispatchEvent(w1, "connection:open")

----------------------------------------------------------------------------
(* upgradeInbound *)

\* the call, up to `await acceptIncomingConnection(maConn)`
upgradeInbound ==
    /\ direction = "inbound" /\ pc = "idle"
    /\ pc' = "acceptIncomingConnection" /\ awaiting' = TRUE
    /\ Log(<<"call", "acceptIncomingConnection">>)
    /\ UNCHANGED <<dial, configVars, error, remotePeer, cryptoProtocol, muxerFactory,
                   timer, afterUpgradeInboundCalls, peerStore, userCalls>>

\* acceptIncomingConnection settles: a refusal throws before the try block;
\* otherwise the timeout is armed
acceptIncomingConnectionReturns ==
    /\ Resumes("inbound", "acceptIncomingConnection")
    /\ \E answer \in {"allow", "deny", "throw"} :
         /\ Log(<<answer, "acceptIncomingConnection">>)
         /\ IF answer = "allow"
            THEN /\ Goto(After(InboundStages, "acceptIncomingConnection"))
                 /\ timer' = "armed"
                 /\ UNCHANGED error
            ELSE /\ pc' = "thrown" /\ awaiting' = FALSE
                 /\ error' = IF answer = "deny"
                             THEN Err("ConnectionDeniedError", "connection denied")
                             ELSE Err("Error", "acceptIncomingConnection")
                 /\ UNCHANGED timer
    /\ UNCHANGED <<dial, configVars, remotePeer, cryptoProtocol, muxerFactory,
                   afterUpgradeInboundCalls, peerStore, userCalls>>

\* `await this.components.connectionGater.denyInboundConnection?.(maConn)`
denyInboundConnection ==
    /\ At("inbound", "denyInboundConnection")
    /\ IF "denyInboundConnection" \in components.gater
       THEN Suspend /\ Log(<<"call", "denyInboundConnection">>)
       ELSE Goto(After(InboundStages, "denyInboundConnection"))
            /\ UNCHANGED worldVars
    /\ UNCHANGED <<dial, configVars, error, remotePeer, cryptoProtocol, muxerFactory,
                   timer, afterUpgradeInboundCalls, peerStore, userCalls>>

denyInboundConnectionReturns ==
    /\ Resumes("inbound", "denyInboundConnection")
    /\ \E deny \in BOOLEAN :
         /\ Log(<<IF deny THEN "deny" ELSE "allow", "denyInboundConnection">>)
         /\ IF deny
            THEN InboundThrow(ConnectionInterceptedError("acceptConnection"))
            ELSE /\ Goto(After(InboundStages, "denyInboundConnection"))
                 /\ UNCHANGED <<error, timer, afterUpgradeInboundCalls>>
    /\ UNCHANGED <<dial, configVars, remotePeer, cryptoProtocol, muxerFactory,
                   peerStore, userCalls>>

\* the Protect block of upgradeInbound
protectInbound ==
    /\ At("inbound", "protect")
    /\ IF ~opts.skipProtection /\ components.connectionProtector
       THEN Suspend /\ Log(<<"stage", "protect">>)
       ELSE Goto(After(InboundStages, "protect")) /\ UNCHANGED worldVars
    /\ UNCHANGED <<dial, configVars, error, remotePeer, cryptoProtocol, muxerFactory,
                   timer, afterUpgradeInboundCalls, peerStore, userCalls>>

\* protector.protect(maConn) settles; it cannot succeed over a dead transport
protectInboundReturns ==
    /\ Resumes("inbound", "protect")
    /\ \E ok \in BOOLEAN :
         /\ ok => maConn.state = "open"
         /\ IF ok
            THEN /\ Goto(After(InboundStages, "protect"))
                 /\ UNCHANGED <<error, timer, afterUpgradeInboundCalls>>
            ELSE InboundThrow(Err("Error", "protect"))
    /\ UNCHANGED <<dial, configVars, worldVars, remotePeer, cryptoProtocol,
                   muxerFactory, peerStore, userCalls>>

\* the encryption block of upgradeInbound: _encryptInbound is called, or the
\* peer id is taken from the multiaddr when encryption is skipped
encryptInbound ==
    /\ At("inbound", "encrypt")
    /\ IF ~opts.skipEncryption
       THEN /\ Suspend /\ Log(<<"stage", "encrypt">>)
            /\ UNCHANGED <<error, remotePeer, cryptoProtocol, timer,
                           afterUpgradeInboundCalls>>
       ELSE /\ UNCHANGED worldVars
            /\ IF maConn.remoteAddrPeerId = Null
               THEN /\ InboundThrow(Err("InvalidMultiaddrError", "peer id"))
                    /\ UNCHANGED <<remotePeer, cryptoProtocol>>
               ELSE /\ cryptoProtocol' = "native"
                    /\ remotePeer' = maConn.remoteAddrPeerId
                    /\ Goto(AfterEncryption(InboundStages))
                    /\ UNCHANGED <<error, timer, afterUpgradeInboundCalls>>
    /\ UNCHANGED <<dial, configVars, muxerFactory, peerStore, userCalls>>

\* _encryptInbound: mss.handle settles with one of the configured protocols,
\* and encrypter.secureInbound is called; any failure is thrown as
\* EncryptionFailedError
_encryptInbound ==
    /\ Resumes("inbound", "encrypt")
    /\ \/ /\ maConn.state = "open"
          /\ \E protocol \in Range(components.connectionEncrypters) :
               cryptoProtocol' = protocol
          /\ pc' = After(InboundStages, "encrypt") /\ awaiting' = TRUE
          /\ UNCHANGED <<error, timer, afterUpgradeInboundCalls>>
       \/ /\ InboundThrow(EncryptionFailedError(Err("Error", "mss.handle")))
          /\ UNCHANGED cryptoProtocol
    /\ UNCHANGED <<dial, configVars, worldVars, remotePeer, muxerFactory, peerStore,
                   userCalls>>

\* encrypter.secureInbound settles
secureInboundReturns ==
    /\ Resumes("inbound", "secure")
    /\ \/ /\ maConn.state = "open"
          /\ \E peer \in {PeerA, PeerB} : remotePeer' = peer
          /\ Goto(After(InboundStages, "secure"))
          /\ UNCHANGED <<error, timer, afterUpgradeInboundCalls>>
       \/ /\ InboundThrow(EncryptionFailedError(Err("Error", "secureInbound")))
          /\ UNCHANGED remotePeer
    /\ UNCHANGED <<dial, configVars, worldVars, cryptoProtocol, muxerFactory,
                   peerStore, userCalls>>

\* shouldBlockConnection(remotePeer, maConn, connectionType) of upgradeInbound:
\* an absent gater method allows at once
inboundGate(connectionType) ==
    /\ At("inbound", connectionType)
    /\ IF connectionType \in components.gater
       THEN Suspend /\ Log(<<"call", connectionType>>)
       ELSE Goto(After(InboundStages, connectionType)) /\ UNCHANGED worldVars
    /\ UNCHANGED <<dial, configVars, error, remotePeer, cryptoProtocol, muxerFactory,
                   timer, afterUpgradeInboundCalls, peerStore, userCalls>>

inboundGateReturns(connectionType) ==
    /\ Resumes("inbound", connectionType)
    /\ \E deny \in BOOLEAN :
         /\ Log(<<IF deny THEN "deny" ELSE "allow", connectionType>>)
         /\ IF shouldBlockConnection(connectionType, deny)
            THEN InboundThrow(ConnectionInterceptedError(connectionType))
            ELSE /\ Goto(After(InboundStages, connectionType))
                 /\ UNCHANGED <<error, timer, afterUpgradeInboundCalls>>
    /\ UNCHANGED <<dial, configVars, remotePeer, cryptoProtocol, muxerFactory,
                   peerStore, userCalls>>

denyInboundEncryptedConnection ==
    inboundGate("denyInboundEncryptedConnection")
denyInboundEncryptedConnectionReturns ==
    inboundGateReturns("denyInboundEncryptedConnection")
denyInboundUpgradedConnection ==
    inboundGate("denyInboundUpgradedConnection")
denyInboundUpgradedConnectionReturns ==
    inboundGateReturns("denyInboundUpgradedConnection")

\* the muxer block of upgradeInbound
multiplexInbound ==
    /\ At("inbound", "multiplex")
    /\ IF opts.muxerFactory # Null
       THEN /\ muxerFactory' = opts.muxerFactory
            /\ Goto(After(InboundStages, "multiplex"))
            /\ UNCHANGED worldVars
       ELSE IF Len(components.streamMuxers) > 0
       THEN /\ Suspend /\ Log(<<"stage", "multiplex">>)
            /\ UNCHANGED muxerFactory
       ELSE /\ Goto(After(InboundStages, "multiplex"))
            /\ UNCHANGED <<worldVars, muxerFactory>>
    /\ UNCHANGED <<dial, configVars, error, remotePeer, cryptoProtocol, timer,
                   afterUpgradeInboundCalls, peerStore, userCalls>>

\* _multiplexInbound: mss.handle settles with one of the configured muxers;
\* a failure is thrown as MuxerUnavailableError
_multiplexInbound ==
    /\ Resumes("inbound", "multiplex")
    /\ \/ /\ maConn.state = "open"
          /\ \E protocol \in Range(components.streamMuxers) :
               muxerFactory' = protocol
          /\ Goto(After(InboundStages, "multiplex"))
          /\ UNCHANGED <<error, timer, afterUpgradeInboundCalls>>
       \/ /\ InboundThrow(MuxerUnavailableError(Err("Error", "mss.handle")))
          /\ UNCHANGED muxerFactory
    /\ UNCHANGED <<dial, configVars, worldVars, remotePeer, cryptoProtocol,
                   peerStore, userCalls>>

\* `return this._createConnection(...)` and the finally block
createConnectionInbound ==
    /\ At("inbound", "createConnection")
    /\ \E early \in BOOLEAN : Commit(_createConnection(World, early))
    /\ pc' = "returned" /\ awaiting' = FALSE
    /\ InboundFinally
    /\ UNCHANGED <<dial, configVars, error, remotePeer, cryptoProtocol, muxerFactory,
                   peerStore, userCalls>>

\* onAbort that closes maConn with the TimeoutError
onAbort_Close ==
    /\ direction = "inbound" /\ timer = "armed" /\ awaiting
    /\ timer' = "fired"
    /\ Commit(MaConnCloseCall(World,
                              Err("TimeoutError", "inbound upgrade timeout")))
    /\ UNCHANGED <<dial, configVars, pc, awaiting, error, remotePeer, cryptoProtocol,
                   muxerFactory, afterUpgradeInboundCalls, peerStore, userCalls>>

\* the timeout signal fires while its listener is attached and no task
\* runs: onAbort
onAbort ==
    /\ direction = "inbound" /\ timer = "armed"
    /\ awaiting \/ pc \in {"returned", "thrown"}
    /\ timer' = "fired"
    /\ Commit(MaConnAbort(World, Err("TimeoutError", "inbound upgrade timeout")))
    /\ UNCHANGED <<dial, configVars, pc, awaiting, error, remotePeer, cryptoProtocol,
                   muxerFactory, afterUpgradeInboundCalls, peerStore, userCalls>>

\* the timeout signal fires after the finally block removed the listener:
\* nothing is called
timeoutFires ==
    /\ direction = "inbound" /\ timer = "removed"
    /\ timer' = "expired"
    /\ UNCHANGED <<dial, configVars, worldVars, pc, awaiting, error, remotePeer,
                   cryptoProtocol, muxerFactory, afterUpgradeInboundCalls,
                   peerStore, userCalls>>

----------------------------------------------------------------------------
(* upgradeOutbound *)

\* a throw outside the try block of upgradeOutbound
OutboundThrow(err) ==
    /\ pc' = "thrown" /\ awaiting' = FALSE /\ error' = err

\* the catch block of upgradeOutbound, up to `await maConn.close(err)`
OutboundCatch(w, err) ==
    /\ pc' = "maConn.close" /\ awaiting' = TRUE /\ error' = err
    /\ Commit(MaConnCloseCall(w, err))

\* the call: the peer id of the multiaddr, and denyOutboundConnection when
\* there is one
upgradeOutboundCall ==
    /\ direction = "outbound" /\ pc = "idle"
    /\ IF maConn.remoteAddrPeerId # Null
          /\ "denyOutboundConnection" \in components.gater
       THEN /\ pc' = "denyOutboundConnection" /\ awaiting' = TRUE
            /\ Log(<<"call", "denyOutboundConnection">>)
       ELSE /\ Goto(After(OutboundStages, "denyOutboundConnection"))
            /\ UNCHANGED worldVars
    /\ UNCHANGED <<configVars, error, remotePeer, cryptoProtocol, muxerFactory,
                   timer, afterUpgradeInboundCalls, peerStore, userCalls>>

\* upgradeOutbound called by a transport that is not modelled
upgradeOutbound == dial = NoDial /\ upgradeOutboundCall /\ UNCHANGED dial

\* the gater answers shouldBlockConnection(..., 'denyOutboundConnection')
denyOutboundConnectionReturns ==
    /\ Resumes("outbound", "denyOutboundConnection")
    /\ \E deny \in BOOLEAN :
         /\ Log(<<IF deny THEN "deny" ELSE "allow", "denyOutboundConnection">>)
         /\ IF shouldBlockConnection("denyOutboundConnection", deny)
            THEN OutboundThrow(ConnectionInterceptedError("denyOutboundConnection"))
            ELSE /\ Goto(After(OutboundStages, "denyOutboundConnection"))
                 /\ UNCHANGED error
    /\ UNCHANGED <<dial, configVars, remotePeer, cryptoProtocol, muxerFactory, timer,
                   afterUpgradeInboundCalls, peerStore, userCalls>>

\* the Protect block of upgradeOutbound
protectOutbound ==
    /\ At("outbound", "protect")
    /\ IF ~opts.skipProtection /\ components.connectionProtector
       THEN Suspend /\ Log(<<"stage", "protect">>)
       ELSE Goto(After(OutboundStages, "protect")) /\ UNCHANGED worldVars
    /\ UNCHANGED <<dial, configVars, error, remotePeer, cryptoProtocol, muxerFactory,
                   timer, afterUpgradeInboundCalls, peerStore, userCalls>>

\* protector.protect(maConn) settles, outside the try block
protectOutboundReturns ==
    /\ Resumes("outbound", "protect")
    /\ \E ok \in BOOLEAN :
         /\ ok => maConn.state = "open"
         /\ IF ok
            THEN Goto(After(OutboundStages, "protect")) /\ UNCHANGED error
            ELSE OutboundThrow(Err("Error", "protect"))
    /\ UNCHANGED <<dial, configVars, worldVars, remotePeer, cryptoProtocol,
                   muxerFactory, timer, afterUpgradeInboundCalls, peerStore,
                   userCalls>>

\* the encryption block of upgradeOutbound: _encryptOutbound is called, or
\* the peer id of the multiaddr is used when encryption is skipped
encryptOutbound ==
    /\ At("outbound", "encrypt")
    /\ IF ~opts.skipEncryption
       THEN /\ Suspend /\ Log(<<"stage", "encrypt">>)
            /\ UNCHANGED <<error, remotePeer, cryptoProtocol>>
       ELSE IF maConn.remoteAddrPeerId = Null
       THEN /\ OutboundCatch(World, Err("InvalidPeerIdError", "no peer id"))
            /\ UNCHANGED <<remotePeer, cryptoProtocol>>
       ELSE /\ cryptoProtocol' = "native"
            /\ remotePeer' = maConn.remoteAddrPeerId
            /\ Goto(AfterEncryption(OutboundStages))
            /\ UNCHANGED <<error, worldVars>>
    /\ UNCHANGED <<dial, configVars, muxerFactory, timer, afterUpgradeInboundCalls,
                   peerStore, userCalls>>

\* _encryptOutbound: mss.select settles with one of the configured
\* protocols, and encrypter.secureOutbound is called; any failure is thrown
\* as EncryptionFailedError
_encryptOutbound ==
    /\ Resumes("outbound", "encrypt")
    /\ \/ /\ maConn.state = "open"
          /\ \E protocol \in Range(components.connectionEncrypters) :
               cryptoProtocol' = protocol
          /\ pc' = After(OutboundStages, "encrypt") /\ awaiting' = TRUE
          /\ UNCHANGED <<error, worldVars>>
       \/ /\ OutboundCatch(World, EncryptionFailedError(Err("Error", "mss.select")))
          /\ UNCHANGED cryptoProtocol
    /\ UNCHANGED <<dial, configVars, remotePeer, muxerFactory, timer,
                   afterUpgradeInboundCalls, peerStore, userCalls>>

\* encrypter.secureOutbound settles: the encrypter fails when the peer is not
\* the one the multiaddr names
secureOutboundReturns ==
    /\ Resumes("outbound", "secure")
    /\ \/ /\ maConn.state = "open"
          /\ \E peer \in {PeerA, PeerB} :
               /\ maConn.remoteAddrPeerId # Null => peer = maConn.remoteAddrPeerId
               /\ remotePeer' = peer
          /\ Goto(After(OutboundStages, "secure"))
          /\ UNCHANGED <<error, worldVars>>
       \/ /\ OutboundCatch(World, EncryptionFailedError(Err("Error", "secureOutbound")))
          /\ UNCHANGED remotePeer
    /\ UNCHANGED <<dial, configVars, cryptoProtocol, muxerFactory, timer,
                   afterUpgradeInboundCalls, peerStore, userCalls>>

\* shouldBlockConnection(remotePeer, maConn, connectionType) of
\* upgradeOutbound
outboundGate(connectionType) ==
    /\ At("outbound", connectionType)
    /\ IF connectionType \in components.gater
       THEN Suspend /\ Log(<<"call", connectionType>>)
       ELSE Goto(After(OutboundStages, connectionType)) /\ UNCHANGED worldVars
    /\ UNCHANGED <<dial, configVars, error, remotePeer, cryptoProtocol, muxerFactory,
                   timer, afterUpgradeInboundCalls, peerStore, userCalls>>

denyOutboundEncryptedConnection ==
    outboundGate("denyOutboundEncryptedConnection")

\* inside the try block: a denial is caught and closes maConn
denyOutboundEncryptedConnectionReturns ==
    /\ Resumes("outbound", "denyOutboundEncryptedConnection")
    /\ \E deny \in BOOLEAN :
         LET w == Emit(World, <<IF deny THEN "deny" ELSE "allow",
                                "denyOutboundEncryptedConnection">>)
         IN  IF shouldBlockConnection("denyOutboundEncryptedConnection", deny)
             THEN OutboundCatch(w, ConnectionInterceptedError(
                                       "denyOutboundEncryptedConnection"))
             ELSE /\ Goto(After(OutboundStages, "denyOutboundEncryptedConnection"))
                  /\ Commit(w)
                  /\ UNCHANGED error
    /\ UNCHANGED <<dial, configVars, remotePeer, cryptoProtocol, muxerFactory, timer,
                   afterUpgradeInboundCalls, peerStore, userCalls>>

\* the muxer block of upgradeOutbound
multiplexOutbound ==
    /\ At("outbound", "multiplex")
    /\ IF opts.muxerFactory # Null
       THEN /\ muxerFactory' = opts.muxerFactory
            /\ Goto(After(OutboundStages, "multiplex"))
            /\ UNCHANGED worldVars
       ELSE IF Len(components.streamMuxers) > 0
       THEN /\ Suspend /\ Log(<<"stage", "multiplex">>)
            /\ UNCHANGED muxerFactory
       ELSE /\ Goto(After(OutboundStages, "multiplex"))
            /\ UNCHANGED <<worldVars, muxerFactory>>
    /\ UNCHANGED <<dial, configVars, error, remotePeer, cryptoProtocol, timer,
                   afterUpgradeInboundCalls, peerStore, userCalls>>

\* _multiplexOutbound: mss.select settles with one of the configured muxers;
\* a failure is thrown as MuxerUnavailableError and caught
_multiplexOutbound ==
    /\ Resumes("outbound", "multiplex")
    /\ \/ /\ maConn.state = "open"
          /\ \E protocol \in Range(components.streamMuxers) :
               muxerFactory' = protocol
          /\ Goto(After(OutboundStages, "multiplex"))
          /\ UNCHANGED <<error, worldVars>>
       \/ /\ OutboundCatch(World, MuxerUnavailableError(Err("Error", "mss.select")))
          /\ UNCHANGED muxerFactory
    /\ UNCHANGED <<dial, configVars, remotePeer, cryptoProtocol, timer,
                   afterUpgradeInboundCalls, peerStore, userCalls>>

\* `await maConn.close(err)` of the catch block settles, and the error is
\* thrown again
catchCloseReturns ==
    /\ Resumes("outbound", "maConn.close")
    /\ \/ /\ Commit(MaConnCloseDone(World))
          /\ UNCHANGED error
       \/ /\ error' = Err("Error", "maConn.close")
          /\ UNCHANGED worldVars
    /\ pc' = "thrown" /\ awaiting' = FALSE
    /\ UNCHANGED <<dial, configVars, remotePeer, cryptoProtocol, muxerFactory, timer,
                   afterUpgradeInboundCalls, peerStore, userCalls>>

denyOutboundUpgradedConnection ==
    outboundGate("denyOutboundUpgradedConnection")

\* after the try block: a denial is thrown to the caller as it is
denyOutboundUpgradedConnectionReturns ==
    /\ Resumes("outbound", "denyOutboundUpgradedConnection")
    /\ \E deny \in BOOLEAN :
         /\ Log(<<IF deny THEN "deny" ELSE "allow",
                  "denyOutboundUpgradedConnection">>)
         /\ IF shouldBlockConnection("denyOutboundUpgradedConnection", deny)
            THEN OutboundThrow(ConnectionInterceptedError(
                                   "denyOutboundUpgradedConnection"))
            ELSE /\ Goto(After(OutboundStages, "denyOutboundUpgradedConnection"))
                 /\ UNCHANGED error
    /\ UNCHANGED <<dial, configVars, remotePeer, cryptoProtocol, muxerFactory, timer,
                   afterUpgradeInboundCalls, peerStore, userCalls>>

\* `return this._createConnection(...)`
createConnectionOutbound ==
    /\ At("outbound", "createConnection")
    /\ \E early \in BOOLEAN : Commit(_createConnection(World, early))
    /\ pc' = "returned" /\ awaiting' = FALSE
    /\ UNCHANGED <<dial, configVars, error, remotePeer, cryptoProtocol, muxerFactory,
                   timer, afterUpgradeInboundCalls, peerStore, userCalls>>

----------------------------------------------------------------------------
(* The Connection after the upgrade *)

\* the transport may be closed by the remote or fail whenever no task runs
Quiescent == awaiting \/ pc = "returned"

transportClosed ==
    /\ Quiescent /\ pc # "idle" /\ maConn.state # "closed"
    /\ Commit(MaConnRemoteClose(World))
    /\ UNCHANGED <<dial, configVars, upgradeVars, peerStore, userCalls>>

\* the application calls connection.close()
close ==
    /\ pc = "returned" /\ userCalls < MaxUserCalls
    /\ userCalls' = userCalls + 1
    /\ Commit(ConnectionClose(World))
    /\ UNCHANGED <<dial, configVars, upgradeVars, peerStore>>

\* the application calls connection.abort(err)
abort ==
    /\ pc = "returned" /\ userCalls < MaxUserCalls
    /\ userCalls' = userCalls + 1
    /\ Commit(ConnectionAbort(World, Err("AbortError", "abort")))
    /\ UNCHANGED <<dial, configVars, upgradeVars, peerStore>>

\* Connection.close() after its close function threw: the connection is
\* aborted with the error
ConnectionCloseFailed(w, err) ==
    [ConnectionAbort(w, err) EXCEPT !.closePc = "done"]

\* Connection.close() after its close function returned
ConnectionCloseDone(w) ==
    [TimelineSetClose([w EXCEPT !.connection.status = "closed"])
        EXCEPT !.closePc = "done"]

\* `await muxer.close(options)` of the close function settles; then
\* maConn.close(options) is called
muxerCloseReturns ==
    /\ closePc = "muxer.close"
    /\ \/ Commit([MaConnCloseCall(MuxerEnd(World), NoError)
                     EXCEPT !.closePc = "maConn.close"])
       \/ Commit(ConnectionCloseFailed(World, Err("Error", "muxer.close")))
    /\ UNCHANGED <<dial, configVars, upgradeVars, peerStore, userCalls>>

\* `await maConn.close(options)` of the close function settles
maConnCloseReturns ==
    /\ closePc = "maConn.close"
    /\ \/ Commit(ConnectionCloseDone(MaConnCloseDone(World)))
       \/ Commit(ConnectionCloseFailed(World, Err("Error", "maConn.close")))
    /\ UNCHANGED <<dial, configVars, upgradeVars, peerStore, userCalls>>

\* `await connection.close()` of the trap's task settles: the finally block
\* dispatches connection:close
notifierResumes ==
    /\ notifiers > 0 /\ closePc = "done"
    /\ Commit(safeDispatchEvent([World EXCEPT !.notifiers = @ - 1],
                                "connection:close"))
    /\ UNCHANGED <<dial, configVars, upgradeVars, peerStore, userCalls>>

----------------------------------------------------------------------------
(* Streams: newStream and onIncomingStream *)

\* registrar.getProtocols()
getProtocols == {p \in Protocols : registrar[p].registered}

\* findIncomingStreamLimit: the handler's maxInboundStreams, which may be
\* undefined; the default when no handler is registered
findIncomingStreamLimit(protocol) ==
    IF registrar[protocol].registered
    THEN registrar[protocol].maxInboundStreams
    ELSE Some(DEFAULT_MAX_INBOUND_STREAMS)

\* registrar.getHandler(protocol): the handler's options, or the error it
\* throws, UnhandledProtocolError when no handler is registered
getHandler(protocol) ==
    IF registrar[protocol].getHandlerThrows # Null
    THEN [error |-> registrar[protocol].getHandlerThrows,
          options |-> [maxOutboundStreams |-> Undefined]]
    ELSE IF ~registrar[protocol].registered
    THEN [error |-> "UnhandledProtocolError",
          options |-> [maxOutboundStreams |-> Undefined]]
    ELSE [error |-> Null,
          options |-> [maxOutboundStreams |->
                           registrar[protocol].maxOutboundStreams]]

\* what a function call ends with: a value, or an error thrown
Return(v) == [error |-> Null, value |-> v]
Throw(err) == [error |-> err, value |-> 0]

\* findOutgoingStreamLimit that looks at the option of the call first
findOutgoingStreamLimit_OptionsFirst(protocol, options) ==
    LET handler == getHandler(protocol)
    IN  IF handler.error \notin {Null, "UnhandledProtocolError"}
        THEN Throw(handler.error)
        ELSE IF options # Undefined THEN Return(options[1])
        ELSE IF handler.options.maxOutboundStreams # Undefined
        THEN Return(handler.options.maxOutboundStreams[1])
        ELSE Return(DEFAULT_MAX_OUTBOUND_STREAMS)

\* findOutgoingStreamLimit: the handler's maxOutboundStreams when it has one,
\* else the option of the call, else the default; an error of getHandler
\* other than UnhandledProtocolError is thrown again
findOutgoingStreamLimit(protocol, options) ==
    LET handler == getHandler(protocol)
    IN  IF handler.error = Null
           /\ handler.options.maxOutboundStreams # Undefined
        THEN Return(handler.options.maxOutboundStreams[1])
        ELSE IF handler.error \notin {Null, "UnhandledProtocolError"}
        THEN Throw(handler.error)
        ELSE IF options # Undefined THEN Return(options[1])
        ELSE Return(DEFAULT_MAX_OUTBOUND_STREAMS)

\* countStreams over connection.streams, the live streams of the muxer
countStreams(protocol, dir) ==
    Cardinality({s \in StreamIds :
        /\ streams[s].state = "open"
        /\ streams[s].direction = dir
        /\ streams[s].protocol = protocol})

\* getStreams: muxer.streams when there is a muxer, else nothing
getStreams ==
    IF muxer # Null THEN {s \in StreamIds : streams[s].state = "open"} ELSE {}

\* the inbound test `streamCount === incomingLimit` written as `>`
TooManyInbound_GreaterThan(streamCount, incomingLimit) ==
    incomingLimit # Undefined /\ streamCount > incomingLimit[1]

\* `streamCount === incomingLimit`
TooManyInbound(streamCount, incomingLimit) ==
    incomingLimit # Undefined /\ streamCount = incomingLimit[1]

\* `streamCount >= outgoingLimit`
TooManyOutbound(streamCount, outgoingLimit) == streamCount >= outgoingLimit

SetStream(s, r) == streams' = [streams EXCEPT ![s] = r]

\* muxedStream.abort(err) / muxedStream.close() unless it is closed already:
\* the stream leaves muxer.streams
Ended(r) == [r EXCEPT !.state = "closed"]

\* the negotiation task is over and its locals are gone
Over(r, at, err) ==
    [r EXCEPT !.pc = at, !.error = err, !.selected = Null,
              !.maxOutboundStreams = Undefined]

streamUnchanged ==
    UNCHANGED <<dial, configVars, upgradeVars, maConn, connection, muxer, closePc,
                notifiers, events, userCalls>>

\* connection.newStream(protocols, options), up to `await muxer.newStream()`;
\* every protocol is offered
newStream(s) ==
    /\ pc = "returned" /\ connection # NoConnection
    /\ streams[s] = NoStream
    /\ \A t \in StreamIds : t < s => streams[t] # NoStream
    /\ \E maxOutboundStreams \in {Undefined, Some(1)} :
         IF muxer = Null
         THEN SetStream(s, Over([NoStream EXCEPT !.direction = "outbound"],
                                "thrown", "MuxerUnavailableError"))
         ELSE SetStream(s, [NoStream EXCEPT
                  !.direction = "outbound", !.pc = "muxer.newStream",
                  !.maxOutboundStreams = maxOutboundStreams])
    /\ UNCHANGED peerStore /\ streamUnchanged

\* muxer.newStream() settles: mss.select is called on the new stream
muxerNewStreamReturns(s) ==
    /\ streams[s].pc = "muxer.newStream"
    /\ IF muxer = "open"
       THEN SetStream(s, [streams[s] EXCEPT !.state = "open", !.pc = "mss.select"])
       ELSE SetStream(s, Over(streams[s], "thrown", "Error"))
    /\ UNCHANGED peerStore /\ streamUnchanged

\* the catch of newStream that throws the error and leaves the stream as it
\* is
newStreamCatch_NoAbort(s, r, err) == SetStream(s, Over(r, "thrown", err))

\* the catch of newStream: the stream is aborted unless it is closed
\* already, and the error is thrown again
newStreamCatch(s, r, err) == SetStream(s, Over(Ended(r), "thrown", err))

\* mss.select settles; on success the outbound limit is checked and
\* peerStore.merge is called
selectReturns(s) ==
    /\ streams[s].direction = "outbound" /\ streams[s].pc = "mss.select"
    /\ \/ /\ streams[s].state = "open"
          /\ \E protocol \in Protocols :
               LET outgoingLimit ==
                       findOutgoingStreamLimit(protocol,
                                               streams[s].maxOutboundStreams)
                   streamCount == countStreams(protocol, "outbound")
               IN  IF outgoingLimit.error # Null
                   THEN newStreamCatch(s, streams[s], outgoingLimit.error)
                   ELSE IF TooManyOutbound(streamCount, outgoingLimit.value)
                   THEN newStreamCatch(s, Ended(streams[s]),
                                       "TooManyOutboundProtocolStreamsError")
                   ELSE SetStream(s, [streams[s] EXCEPT
                            !.pc = "peerStore.merge", !.selected = protocol])
       \/ newStreamCatch(s, streams[s], "Error")
    /\ UNCHANGED peerStore /\ streamUnchanged

\* peerStore.merge settles; on success the protocol is set on the stream and
\* the stream is returned
mergeReturns(s) ==
    /\ streams[s].direction = "outbound" /\ streams[s].pc = "peerStore.merge"
    /\ \/ /\ SetStream(s, Over([streams[s] EXCEPT
                                   !.protocol = streams[s].selected],
                               "returned", Null))
          /\ peerStore' = peerStore \cup {streams[s].selected}
       \/ /\ newStreamCatch(s, streams[s], "Error")
          /\ UNCHANGED peerStore
    /\ streamUnchanged

\* the catch of onIncomingStream that resets every stream of the muxer
onIncomingStreamCatch_AllStreams(s, err) ==
    streams' = [t \in StreamIds |->
                   IF t = s THEN Over(Ended(streams[s]), "failed", err)
                   ELSE IF streams[t].state = "open" THEN Ended(streams[t])
                   ELSE streams[t]]

\* the catch of onIncomingStream: the stream is closed unless it is closed
\* already
onIncomingStreamCatch(s, err) ==
    SetStream(s, Over(Ended(streams[s]), "failed", err))

\* the muxer reports an inbound stream: onIncomingStream, up to
\* `await mss.handle(...)` with the protocols registered now
onIncomingStream(s) ==
    /\ Quiescent /\ muxer = "open"
    /\ streams[s] = NoStream
    /\ \A t \in StreamIds : t < s => streams[t] # NoStream
    /\ Commit(onIncomingStreamCall(World, s))
    /\ UNCHANGED <<dial, configVars, upgradeVars, peerStore, userCalls>>

\* mss.handle settles; on success the inbound limit is checked, the protocol
\* is set on the stream and peerStore.merge is called
handleReturns(s) ==
    /\ streams[s].direction = "inbound" /\ streams[s].pc = "mss.handle"
    /\ \/ /\ streams[s].state = "open"
          /\ \E protocol \in getProtocols :
               LET incomingLimit == findIncomingStreamLimit(protocol)
                   streamCount == countStreams(protocol, "inbound")
               IN  IF TooManyInbound(streamCount, incomingLimit)
                   THEN onIncomingStreamCatch(s,
                            "TooManyInboundProtocolStreamsError")
                   ELSE SetStream(s, [streams[s] EXCEPT
                            !.protocol = protocol, !.selected = protocol,
                            !.pc = "peerStore.merge"])
       \/ onIncomingStreamCatch(s, "Error")
    /\ UNCHANGED peerStore /\ streamUnchanged

\* _onStream that never throws LimitedConnectionError
LimitedConnection_Never(protocol) == FALSE

\* _onStream: whether it throws LimitedConnectionError
LimitedConnection(protocol) ==
    connection.limits /\ ~registrar[protocol].runOnLimitedConnection

\* the routing task that calls the handler before it awaits peerStore.merge
inboundMergeReturns_HandlerFirst(s) ==
    /\ streams[s].direction = "inbound" /\ streams[s].pc = "peerStore.merge"
    /\ \/ /\ peerStore' = peerStore \cup {streams[s].selected}
          /\ SetStream(s, Over([streams[s] EXCEPT !.handled = TRUE],
                               "handled", Null))
       \/ /\ SetStream(s, Over(Ended([streams[s] EXCEPT !.handled = TRUE]),
                               "failed", "Error"))
          /\ UNCHANGED peerStore
    /\ streamUnchanged

\* peerStore.merge settles; on success _onStream hands the stream to the
\* handler unless the connection is limited, and the handler may throw
inboundMergeReturns(s) ==
    /\ streams[s].direction = "inbound" /\ streams[s].pc = "peerStore.merge"
    /\ \/ /\ peerStore' = peerStore \cup {streams[s].selected}
          /\ IF LimitedConnection(streams[s].selected)
             THEN onIncomingStreamCatch(s, "LimitedConnectionError")
             ELSE \/ SetStream(s, Over([streams[s] EXCEPT !.handled = TRUE],
                                       "handled", Null))
                  \/ SetStream(s, Over(Ended([streams[s] EXCEPT
                                                !.handled = TRUE]),
                                       "failed", "HandlerError"))
       \/ /\ onIncomingStreamCatch(s, "Error")
          /\ UNCHANGED peerStore
    /\ streamUnchanged

\* a stream is closed or reset, by the remote or by the application
streamCloses(s) ==
    /\ streams[s].state = "open"
    /\ SetStream(s, Ended(streams[s]))
    /\ UNCHANGED peerStore /\ streamUnchanged

NextStream(s) ==
    \/ newStream(s) \/ muxerNewStreamReturns(s) \/ selectReturns(s)
    \/ mergeReturns(s) \/ onIncomingStream(s) \/ handleReturns(s)
    \/ inboundMergeReturns(s) \/ streamCloses(s)

----------------------------------------------------------------------------
(* The upgrade of one connection and the life of the Connection it returns *)

GaterConfigs ==
    {InboundGaterMethods \cup OutboundGaterMethods, {},
     {"denyInboundUpgradedConnection", "denyOutboundUpgradedConnection"}}

DefaultRegistrar ==
    [p \in Protocols |->
        [registered |-> TRUE, maxInboundStreams |-> Some(1),
         maxOutboundStreams |-> Some(1), runOnLimitedConnection |-> FALSE,
         getHandlerThrows |-> Null]]

InitUpgrade ==
    /\ pc = "idle" /\ awaiting = FALSE /\ error = NoError
    /\ remotePeer = Null /\ cryptoProtocol = Null /\ muxerFactory = Null
    /\ timer = "unset" /\ afterUpgradeInboundCalls = 0
    /\ connection = NoConnection /\ muxer = Null /\ closePc = Null
    /\ notifiers = 0 /\ events = <<>>
    /\ streams = [s \in StreamIds |-> NoStream]
    /\ peerStore = {} /\ userCalls = 0

Init ==
    /\ direction \in {"inbound", "outbound"}
    /\ opts \in [skipEncryption : BOOLEAN, skipProtection : BOOLEAN,
                 muxerFactory : {Null, YAMUX}, limits : {FALSE},
                 remotePeer : {Null, PeerA}]
    \* a caller names the remote peer only for an outbound upgrade that
    \* skips encryption
    /\ opts.remotePeer # Null => direction = "outbound" /\ opts.skipEncryption
    /\ components \in [connectionProtector : BOOLEAN, gater : GaterConfigs,
                       connectionEncrypters : {<<NOISE>>, <<NOISE, TLS>>},
                       streamMuxers : {<<>>, <<YAMUX>>, <<YAMUX, MPLEX>>}]
    /\ registrar = DefaultRegistrar
    /\ \E id \in {Null, PeerA} :
         maConn = [remoteAddrPeerId |-> id, state |-> "open",
                   timelineClose |-> FALSE, aborted |-> Null,
                   closeCause |-> NoError, closeReturned |-> FALSE]
    /\ InitUpgrade
    /\ dial = NoDial

NextInbound ==
    \/ upgradeInbound \/ acceptIncomingConnectionReturns
    \/ denyInboundConnection \/ denyInboundConnectionReturns
    \/ protectInbound \/ protectInboundReturns
    \/ encryptInbound \/ _encryptInbound \/ secureInboundReturns
    \/ denyInboundEncryptedConnection \/ denyInboundEncryptedConnectionReturns
    \/ multiplexInbound \/ _multiplexInbound
    \/ denyInboundUpgradedConnection \/ denyInboundUpgradedConnectionReturns
    \/ createConnectionInbound \/ onAbort

NextOutbound ==
    \/ upgradeOutbound \/ denyOutboundConnectionReturns
    \/ protectOutbound \/ protectOutboundReturns
    \/ encryptOutbound \/ _encryptOutbound \/ secureOutboundReturns
    \/ denyOutboundEncryptedConnection \/ denyOutboundEncryptedConnectionReturns
    \/ multiplexOutbound \/ _multiplexOutbound \/ catchCloseReturns
    \/ denyOutboundUpgradedConnection \/ denyOutboundUpgradedConnectionReturns
    \/ createConnectionOutbound

NextConnection ==
    \/ transportClosed \/ close \/ abort
    \/ muxerCloseReturns \/ maConnCloseReturns \/ notifierResumes

Next == NextInbound \/ NextOutbound \/ NextConnection

Spec == Init /\ [][Next]_vars

----------------------------------------------------------------------------
(* Streams on an open connection: the state after an outbound upgrade that *)
(* skipped encryption and was given a muxer factory                        *)

Registrars ==
    { [p \in Protocols |->
          [registered |-> TRUE, maxInboundStreams |-> Some(1),
           maxOutboundStreams |-> Some(1), runOnLimitedConnection |-> p = PING,
           getHandlerThrows |-> Null]],
      [p \in Protocols |->
          [registered |-> TRUE, maxInboundStreams |-> Some(2),
           maxOutboundStreams |-> Some(2), runOnLimitedConnection |-> FALSE,
         getHandlerThrows |-> Null]],
      [p \in Protocols |->
          [registered |-> p = ECHO, maxInboundStreams |-> Undefined,
           maxOutboundStreams |-> Undefined, runOnLimitedConnection |-> TRUE,
           getHandlerThrows |-> Null]] }

InitStreams ==
    /\ direction = "outbound"
    /\ \E limits \in BOOLEAN :
         /\ opts = [skipEncryption |-> TRUE, skipProtection |-> TRUE,
                    muxerFactory |-> YAMUX, limits |-> limits,
                    remotePeer |-> Null]
         /\ connection = [status |-> "open", direction |-> "outbound",
                          remotePeer |-> PeerA, encryption |-> "native",
                          multiplexer |-> YAMUX, limits |-> limits]
    /\ components = [connectionProtector |-> FALSE, gater |-> {},
                     connectionEncrypters |-> <<NOISE>>,
                     streamMuxers |-> <<YAMUX>>]
    /\ registrar \in Registrars
    /\ pc = "returned" /\ awaiting = FALSE /\ error = NoError
    /\ remotePeer = PeerA /\ cryptoProtocol = "native" /\ muxerFactory = YAMUX
    /\ timer = "unset" /\ afterUpgradeInboundCalls = 0
    /\ maConn = [remoteAddrPeerId |-> PeerA, state |-> "open",
                 timelineClose |-> FALSE, aborted |-> Null,
                 closeCause |-> NoError, closeReturned |-> FALSE]
    /\ muxer = "open" /\ closePc = Null /\ notifiers = 0
    /\ events = <<<<"dispatch", "connection:open">>>>
    /\ streams = [s \in StreamIds |-> NoStream]
    /\ peerStore = {} /\ userCalls = 0
    /\ dial = NoDial

NextStreams == \E s \in 1 .. MaxStreams : NextStream(s)

SpecStreams == InitStreams /\ [][NextStreams]_vars

----------------------------------------------------------------------------
(* Inbound streams only, on the open connection of InitStreams *)

NextRouted ==
    \E s \in StreamIds :
        \/ onIncomingStream(s) \/ handleReturns(s)
        \/ inboundMergeReturns(s) \/ streamCloses(s)

SpecRouted == InitStreams /\ [][NextRouted]_vars

----------------------------------------------------------------------------
(* The upgrade followed by the routing of the first inbound stream *)

NextRouting ==
    \E s \in {1} :
        \/ onIncomingStream(s) \/ handleReturns(s)
        \/ inboundMergeReturns(s) \/ streamCloses(s)

SpecRouting == Init /\ [][NextInbound \/ NextOutbound \/ NextRouting]_vars

----------------------------------------------------------------------------
(* The upgrade, the life of the Connection it returns and its streams *)

NextFirstStream == \E s \in {1} : NextStream(s)

\* upgrades of either direction with every way of getting a muxer or none,
\* without protector and gater, and the full upgrade with a protector, every
\* gater method and a negotiated muxer
InitConnection ==
    /\ direction \in {"inbound", "outbound"}
    /\ opts \in [skipEncryption : BOOLEAN, skipProtection : BOOLEAN,
                 muxerFactory : {Null, YAMUX}, limits : {FALSE},
                 remotePeer : {Null}]
    /\ components \in [connectionProtector : BOOLEAN,
                       gater : {{}, InboundGaterMethods \cup OutboundGaterMethods},
                       connectionEncrypters : {<<NOISE>>},
                       streamMuxers : {<<>>, <<YAMUX>>, <<YAMUX, MPLEX>>}]
    /\ components.connectionProtector <=> ~opts.skipProtection
    /\ components.connectionProtector <=> components.gater # {}
    /\ components.connectionProtector =>
           /\ ~opts.skipEncryption /\ opts.muxerFactory = Null
           /\ components.streamMuxers = <<YAMUX>>
    /\ registrar = DefaultRegistrar
    /\ maConn = [remoteAddrPeerId |-> PeerA, state |-> "open",
                 timelineClose |-> FALSE, aborted |-> Null,
                 closeCause |-> NoError, closeReturned |-> FALSE]
    /\ InitUpgrade
    /\ dial = NoDial

SpecConnection == InitConnection /\ [][Next \/ NextFirstStream]_vars

----------------------------------------------------------------------------
(* Outbound streams on the open connection of InitStreams, with every kind *)
(* of answer of registrar.getHandler                                       *)

\* what the registrar holds for a protocol: no handler, a handler without
\* maxOutboundStreams or with one of 0, 1 and 2, and a lookup that fails
HandlerStates ==
    {[registered |-> FALSE, maxInboundStreams |-> Undefined,
      maxOutboundStreams |-> Undefined, runOnLimitedConnection |-> FALSE,
      getHandlerThrows |-> Null],
     [registered |-> TRUE, maxInboundStreams |-> Undefined,
      maxOutboundStreams |-> Undefined, runOnLimitedConnection |-> FALSE,
      getHandlerThrows |-> "RegistrarError"]}
    \cup {[registered |-> TRUE, maxInboundStreams |-> Undefined,
           maxOutboundStreams |-> m, runOnLimitedConnection |-> FALSE,
           getHandlerThrows |-> Null] :
              m \in {Undefined, Some(0), Some(1), Some(2)}}

InitLimits ==
    /\ direction = "outbound"
    /\ opts = [skipEncryption |-> TRUE, skipProtection |-> TRUE,
               muxerFactory |-> YAMUX, limits |-> FALSE, remotePeer |-> Null]
    /\ connection = [status |-> "open", direction |-> "outbound",
                     remotePeer |-> PeerA, encryption |-> "native",
                     multiplexer |-> YAMUX, limits |-> FALSE]
    /\ components = [connectionProtector |-> FALSE, gater |-> {},
                     connectionEncrypters |-> <<NOISE>>,
                     streamMuxers |-> <<YAMUX>>]
    /\ registrar \in [Protocols -> HandlerStates]
    /\ registrar[PING].maxOutboundStreams \in {Undefined, Some(1)}
    /\ pc = "returned" /\ awaiting = FALSE /\ error = NoError
    /\ remotePeer = PeerA /\ cryptoProtocol = "native" /\ muxerFactory = YAMUX
    /\ timer = "unset" /\ afterUpgradeInboundCalls = 0
    /\ maConn = [remoteAddrPeerId |-> PeerA, state |-> "open",
                 timelineClose |-> FALSE, aborted |-> Null,
                 closeCause |-> NoError, closeReturned |-> FALSE]
    /\ muxer = "open" /\ closePc = Null /\ notifiers = 0
    /\ events = <<<<"dispatch", "connection:open">>>>
    /\ streams = [s \in StreamIds |-> NoStream]
    /\ peerStore = {} /\ userCalls = 0
    /\ dial = NoDial

NextLimits ==
    \E s \in 1 .. MaxStreams :
        \/ newStream(s) \/ muxerNewStreamReturns(s) \/ selectReturns(s)
        \/ mergeReturns(s) \/ streamCloses(s)

SpecLimits == InitLimits /\ [][NextLimits]_vars

----------------------------------------------------------------------------
(* The inbound upgrade and its Connection, with the timeout signal firing  *)
(* at any time after it was created                                        *)

InitTimeout ==
    /\ direction = "inbound"
    /\ opts \in [skipEncryption : BOOLEAN, skipProtection : {FALSE},
                 muxerFactory : {Null, YAMUX}, limits : {FALSE},
                 remotePeer : {Null}]
    /\ components \in [connectionProtector : BOOLEAN, gater : GaterConfigs,
                       connectionEncrypters : {<<NOISE>>},
                       streamMuxers : {<<>>, <<YAMUX>>}]
    /\ components.connectionProtector <=> components.gater # {}
    /\ registrar = DefaultRegistrar
    /\ \E id \in {Null, PeerA} :
         maConn = [remoteAddrPeerId |-> id, state |-> "open",
                   timelineClose |-> FALSE, aborted |-> Null,
                   closeCause |-> NoError, closeReturned |-> FALSE]
    /\ InitUpgrade
    /\ dial = NoDial

SpecTimeout ==
    InitTimeout /\ [][NextInbound \/ NextConnection \/ timeoutFires]_vars

----------------------------------------------------------------------------
(* TCP.dial: _connect, then upgradeOutbound(maConn) with the listener that  *)
(* closes maConn when options.signal fires.  maConn stands for the socket   *)
(* until toMultiaddrConnection wraps it.                                    *)

AbortError == Err("AbortError", "The operation was aborted")

\* `done` of _connect that leaves the four listeners in place
done_KeepListeners(d, err) ==
    [d EXCEPT !.settles = @ + 1,
              !.pc = IF d.settles > 0 THEN @
                     ELSE IF err = NoError THEN "upgradeOutbound" ELSE "thrown",
              !.error = IF d.settles > 0 THEN @ ELSE err]

\* `done` of _connect: the listeners on 'error', 'timeout', 'connect' and on
\* the signal are removed, and the promise is rejected with the error or
\* resolved with the socket, which has an effect the first time only
done(d, err) ==
    [d EXCEPT !.listeners = FALSE,
              !.settles = @ + 1,
              !.pc = IF d.settles > 0 THEN @
                     ELSE IF err = NoError THEN "upgradeOutbound" ELSE "thrown",
              !.error = IF d.settles > 0 THEN @ ELSE err]

\* the 'error' listener of _connect: the message is prefixed and done(err)
\* is called
onErrorListener(d, err) ==
    done(d, Err(err.name, "connection error: " \o err.message))

\* dial is called: _connect throws when the signal is aborted already, else
\* it opens the socket, adds its four listeners, and dial waits
_connect ==
    /\ dial.pc = "idle"
    /\ dial' = IF dial.signal = "aborted"
               THEN [dial EXCEPT !.pc = "thrown", !.error = AbortError,
                                 !.settles = 1]
               ELSE [dial EXCEPT !.pc = "_connect", !.socket = "connecting",
                                 !.listeners = TRUE]
    /\ UNCHANGED <<configVars, upgradeVars, worldVars, peerStore, userCalls>>

\* the socket emits 'error' before it is connected: onError when the
\* listener is there
onError ==
    /\ dial.socket = "connecting"
    /\ LET d == [dial EXCEPT !.socket = "errored"]
       IN  dial' = IF dial.listeners
                   THEN onErrorListener(d, Err("Error", "ECONNREFUSED"))
                   ELSE d
    /\ Commit([World EXCEPT !.maConn.state = "closed"])
    /\ UNCHANGED <<configVars, upgradeVars, peerStore, userCalls>>

\* the socket emits 'timeout': onTimeout, when the listener is there, emits
\* 'error' with a TimeoutError, which calls onError; the socket stays as it
\* is
onTimeout ==
    /\ dial.socket \in {"connecting", "connected"} /\ ~dial.timedOut
    /\ dial.pc = "upgradeOutbound" => awaiting
    /\ LET d == [dial EXCEPT !.timedOut = TRUE]
       IN  dial' = IF dial.listeners
                   THEN onErrorListener(d, Err("TimeoutError",
                                               "connection timeout"))
                   ELSE d
    /\ UNCHANGED <<configVars, upgradeVars, worldVars, peerStore, userCalls>>

\* the signal fires while the listener of _connect is there: onAbort
\* destroys the socket and calls done with an AbortError
_connectOnAbort ==
    /\ dial.signal = "idle" /\ dial.listeners
    /\ dial.pc = "upgradeOutbound" => awaiting
    /\ dial' = done([dial EXCEPT !.signal = "aborted",
                                 !.socket = "destroyed"], AbortError)
    /\ Commit([World EXCEPT !.maConn.state = "closed"])
    /\ UNCHANGED <<configVars, upgradeVars, peerStore, userCalls>>

\* the signal fires after dial has settled: no listener is left
signalAborts ==
    /\ dial.signal = "idle" /\ ~dial.listeners
    /\ dial.pc \in {"returned", "thrown"}
    /\ dial' = [dial EXCEPT !.signal = "aborted"]
    /\ UNCHANGED <<configVars, upgradeVars, worldVars, peerStore, userCalls>>

\* the socket emits 'connect': onConnect, when the listener is there, calls
\* done(); dial then wraps the socket, adds its abort listener and calls
\* upgrader.upgradeOutbound(maConn), which runs to its first await
onConnect ==
    /\ dial.socket = "connecting"
    /\ LET d == [dial EXCEPT !.socket = "connected"]
       IN  IF dial.listeners
           THEN /\ dial' = done(d, NoError)
                /\ IF dial.settles = 0
                   THEN upgradeOutboundCall
                   ELSE UNCHANGED <<configVars, upgradeVars, worldVars,
                                    peerStore, userCalls>>
           ELSE /\ dial' = d
                /\ UNCHANGED <<configVars, upgradeVars, worldVars, peerStore,
                               userCalls>>

\* the signal fires while the upgrade is suspended: onAbort of dial calls
\* maConn.close() and does not wait for it
dialOnAbort ==
    /\ dial.pc = "upgradeOutbound" /\ dial.signal = "idle" /\ awaiting
    /\ dial' = [dial EXCEPT !.signal = "aborted"]
    /\ Commit(MaConnCloseCall(World, NoError))
    /\ UNCHANGED <<configVars, upgradeVars, peerStore, userCalls>>

\* `await options.upgrader.upgradeOutbound(maConn)` settles: dial rejects
\* with the error of the upgrade; with a connection it closes it and throws
\* an AbortError when the signal is aborted, else it returns it
dialResumes ==
    /\ dial.pc = "upgradeOutbound" /\ pc \in {"returned", "thrown"}
    /\ IF pc = "thrown"
       THEN /\ dial' = [dial EXCEPT !.pc = "thrown", !.error = error]
            /\ UNCHANGED worldVars
       ELSE IF dial.signal = "aborted"
       THEN /\ dial' = [dial EXCEPT !.pc = "thrown", !.error = AbortError]
            /\ Commit(ConnectionClose(World))
       ELSE /\ dial' = [dial EXCEPT !.pc = "returned"]
            /\ UNCHANGED worldVars
    /\ UNCHANGED <<configVars, upgradeVars, peerStore, userCalls>>

\* a dial with the options dial passes to the upgrader (none), with and
\* without a signal
InitDial ==
    /\ direction = "outbound"
    /\ opts = [skipEncryption |-> FALSE, skipProtection |-> FALSE,
               muxerFactory |-> Null, limits |-> FALSE, remotePeer |-> Null]
    /\ components \in [connectionProtector : BOOLEAN, gater : GaterConfigs,
                       connectionEncrypters : {<<NOISE>>},
                       streamMuxers : {<<>>, <<YAMUX>>}]
    /\ registrar = DefaultRegistrar
    /\ \E id \in {Null, PeerA} :
         maConn = [remoteAddrPeerId |-> id, state |-> "open",
                   timelineClose |-> FALSE, aborted |-> Null,
                   closeCause |-> NoError, closeReturned |-> FALSE]
    /\ InitUpgrade
    /\ dial \in [pc : {"idle"}, signal : {Null, "idle", "aborted"},
                 error : {NoError}, socket : {Null}, listeners : {FALSE},
                 settles : {0}, timedOut : {FALSE}]

NextDial ==
    \/ _connect \/ onError \/ onTimeout \/ _connectOnAbort \/ onConnect
    \/ dialOnAbort \/ dialResumes \/ signalAborts
    \/ denyOutboundConnectionReturns
    \/ protectOutbound \/ protectOutboundReturns
    \/ encryptOutbound \/ _encryptOutbound \/ secureOutboundReturns
    \/ denyOutboundEncryptedConnection \/ denyOutboundEncryptedConnectionReturns
    \/ multiplexOutbound \/ _multiplexOutbound \/ catchCloseReturns
    \/ denyOutboundUpgradedConnection \/ denyOutboundUpgradedConnectionReturns
    \/ createConnectionOutbound
    \/ transportClosed \/ muxerCloseReturns \/ maConnCloseReturns
    \/ notifierResumes

SpecDial == InitDial /\ [][NextDial]_vars

----------------------------------------------------------------------------
(* Properties *)

Indices(e) == {i \in 1 .. Len(events) : events[i] = e}
Count(e) == Cardinality(Indices(e))
Happened(e) == Indices(e) # {}

OpenEvent == <<"dispatch", "connection:open">>
CloseEvent == <<"dispatch", "connection:close">>

Settled == pc \in {"returned", "thrown"}
Admitted == Happened(<<"allow", "acceptIncomingConnection">>)



\* C1 as stated: every upgradeInbound that has settled, whatever the exit
\* path, the refusal by acceptIncomingConnection included, has called
\* afterUpgradeInbound exactly once.
C1_ReleasedOnEveryExit ==
    (direction = "inbound" /\ Settled) => afterUpgradeInboundCalls = 1

\* C1 amended: an upgradeInbound that acceptIncomingConnection admitted has
\* called afterUpgradeInbound exactly once when it settles (success, gater
\* denial, protector, encryption or muxer failure, timeout abort) and not
\* before; one that acceptIncomingConnection refused (false or a throw)
\* settles without calling it.
C1_ReleasedOnceIfAdmitted ==
    direction = "inbound" =>
        afterUpgradeInboundCalls = IF Settled /\ Admitted THEN 1 ELSE 0

\* an admitted inbound upgrade that the timeout aborted has failed and released
C1_Witness ==
    /\ direction = "inbound" /\ pc = "thrown" /\ timer = "fired"
    /\ afterUpgradeInboundCalls = 1

\* C2: for every protocol whose handler sets maxOutboundStreams, the number of
\* live outbound streams of the connection with that protocol never exceeds
\* the limit, whatever the interleaving of the newStream calls.
C2_OutboundWithinLimit ==
    \A p \in Protocols :
        (registrar[p].registered /\ registrar[p].maxOutboundStreams # Undefined)
        => countStreams(p, "outbound") <= registrar[p].maxOutboundStreams[1]

\* C3: for every protocol whose handler sets maxInboundStreams, the number of
\* live inbound streams of the connection with that protocol never exceeds
\* the limit, and a stream rejected for the limit is aborted, has no protocol
\* and never reaches the handler.
C3_InboundWithinLimit ==
    /\ \A p \in Protocols :
         (registrar[p].registered /\ registrar[p].maxInboundStreams # Undefined)
         => countStreams(p, "inbound") <= registrar[p].maxInboundStreams[1]
    /\ \A s \in StreamIds :
         streams[s].error = "TooManyInboundProtocolStreamsError"
         => /\ streams[s].state = "closed"
            /\ streams[s].protocol = Null
            /\ ~streams[s].handled

\* a stream was rejected while the streams of a protocol were at the limit
C3_Witness ==
    /\ \E s \in StreamIds :
         streams[s].error = "TooManyInboundProtocolStreamsError"
    /\ \E p \in Protocols :
         /\ registrar[p].maxInboundStreams # Undefined
         /\ countStreams(p, "inbound") = registrar[p].maxInboundStreams[1]

\* C4: an upgradeOutbound that has thrown has called maConn.close with the
\* failure as cause, and thrown that failure unless the close itself failed.
C4_OutboundFailureClosesMaConn ==
    (direction = "outbound" /\ pc = "thrown") =>
        /\ maConn.closeCause # NoError
        /\ error = maConn.closeCause \/ error = Err("Error", "maConn.close")

\* C5: connection:open is dispatched exactly once for an upgrade that
\* returned and never otherwise; connection:close is dispatched at most once,
\* however often close and abort are called and timeline.close is written,
\* and only after connection:open.
C5_OpenOnceCloseAtMostOnce ==
    /\ Count(OpenEvent) = IF pc = "returned" THEN 1 ELSE 0
    /\ Count(CloseEvent) <= 1
    /\ \A i \in Indices(CloseEvent) : \E j \in Indices(OpenEvent) : j < i

\* the application has made all its calls, the connection is closed and
\* connection:close was dispatched
C5_Witness ==
    /\ userCalls = MaxUserCalls /\ connection.status = "closed"
    /\ closePc = "done" /\ Count(CloseEvent) = 1

\* C6: once connection:open was dispatched and timeline.close is set, and no
\* task of the trap is still waiting for connection.close(), connection:close
\* has been dispatched exactly once.
C6_CloseDispatchedOnceClosed ==
    (Happened(OpenEvent) /\ maConn.timelineClose /\ notifiers = 0)
    => Count(CloseEvent) = 1

\* C7: connection:close is dispatched only after a call of maConn.close has
\* settled or the transport was aborted.
C7_CloseAfterTransportClose ==
    Happened(CloseEvent) => (maConn.closeReturned \/ maConn.aborted # Null)

\* C8: after a checkpoint has denied, no checkpoint is invoked, no stage is
\* started and nothing is dispatched; there is no Connection, and no stream
\* is negotiated or handed to a handler.
C8_NothingAfterDenial ==
    \A i \in 1 .. Len(events) :
        events[i][1] = "deny" =>
            /\ \A j \in (i + 1) .. Len(events) :
                 events[j][1] \notin {"call", "stage", "dispatch"}
            /\ connection = NoConnection
            /\ \A s \in StreamIds :
                 ~streams[s].handled /\ streams[s].protocol = Null

\* the encrypted-connection gater has denied an inbound upgrade
C8_Witness ==
    /\ pc = "thrown"
    /\ Happened(<<"deny", "denyInboundEncryptedConnection">>)

\* the place of each call in the order C9 states
C9_Rank(e) ==
    CASE e[2] \in {"acceptIncomingConnection"} -> 1
      [] e[2] \in {"denyInboundConnection", "denyOutboundConnection"} -> 2
      [] e[2] = "protect" -> 3
      [] e[2] = "encrypt" -> 4
      [] e[2] \in {"denyInboundEncryptedConnection",
                   "denyOutboundEncryptedConnection"} -> 5
      [] e[2] = "multiplex" -> 6
      [] e[2] \in {"denyInboundUpgradedConnection",
                   "denyOutboundUpgradedConnection"} -> 7
      [] e[2] = "connection:open" -> 8
      [] OTHER -> 9

C9_Steps ==
    {i \in 1 .. Len(events) : events[i][1] \in {"call", "stage", "dispatch"}}

\* the checkpoint that guards the stage or dispatch `e`
C9_Guard(e) ==
    CASE e[2] \in {"protect", "encrypt"} ->
             IF direction = "inbound" THEN "denyInboundConnection"
             ELSE "denyOutboundConnection"
      [] e[2] = "multiplex" ->
             IF direction = "inbound" THEN "denyInboundEncryptedConnection"
             ELSE "denyOutboundEncryptedConnection"
      [] OTHER ->
             IF direction = "inbound" THEN "denyInboundUpgradedConnection"
             ELSE "denyOutboundUpgradedConnection"

\* whether the upgrade asks checkpoint `g` at all: its gater method exists,
\* encryption is not skipped for the encrypted-connection checkpoint, and the
\* multiaddr names a peer for denyOutboundConnection
C9_Asked(g) ==
    /\ g \in components.gater
    /\ g \in {"denyInboundEncryptedConnection",
              "denyOutboundEncryptedConnection"} => ~opts.skipEncryption
    /\ g = "denyOutboundConnection" => maConn.remoteAddrPeerId # Null

\* C9: checkpoints, stages and connection:open happen in the order
\* acceptIncomingConnection, denyInbound/OutboundConnection, protect, encrypt,
\* deny...EncryptedConnection, multiplex, deny...UpgradedConnection,
\* connection:open; every checkpoint called before a stage has allowed before
\* that stage starts, and the checkpoint guarding a stage has been asked and
\* has allowed whenever the upgrade asks it at all.
C9_CheckpointOrder ==
    /\ \A i, j \in C9_Steps :
         (i < j /\ events[j] # CloseEvent) =>
             C9_Rank(events[i]) < C9_Rank(events[j])
    /\ \A j \in 1 .. Len(events) :
         (events[j][1] = "stage" \/ events[j] = OpenEvent) =>
             /\ \A i \in 1 .. (j - 1) :
                  events[i][1] = "call" =>
                      \E k \in (i + 1) .. (j - 1) :
                          events[k] = <<"allow", events[i][2]>>
             /\ direction = "inbound" =>
                    \E k \in 1 .. (j - 1) :
                        events[k] = <<"allow", "acceptIncomingConnection">>
             /\ C9_Asked(C9_Guard(events[j])) =>
                    \E k \in 1 .. (j - 1) :
                        events[k] = <<"allow", C9_Guard(events[j])>>

\* an inbound upgrade that went through every checkpoint and stage
C9_Witness ==
    /\ direction = "inbound" /\ pc = "returned"
    /\ Happened(<<"call", "denyInboundConnection">>)
    /\ Happened(<<"stage", "protect">>)
    /\ Happened(<<"stage", "encrypt">>)
    /\ Happened(<<"call", "denyInboundEncryptedConnection">>)
    /\ Happened(<<"stage", "multiplex">>)
    /\ Happened(<<"call", "denyInboundUpgradedConnection">>)

\* the calls, stages and dispatches, without the answers of the checkpoints
C10_IsStep(e) == e[1] \in {"call", "stage", "dispatch"}
C10_Observed == SelectSeq(events, C10_IsStep)

\* a successful inbound upgrade with one encrypter, one muxer, every gater
\* method and no protector
C10_Scenario ==
    /\ direction = "inbound" /\ pc = "returned"
    /\ components.connectionEncrypters = <<NOISE>>
    /\ components.streamMuxers = <<YAMUX>>
    /\ InboundGaterMethods \subseteq components.gater
    /\ ~components.connectionProtector
    /\ ~opts.skipEncryption /\ opts.muxerFactory = Null

C10_Fields ==
    /\ connection.direction = "inbound"
    /\ connection.encryption = NOISE
    /\ connection.multiplexer = YAMUX

\* C10 as stated: in the scenario the events are denyInboundConnection,
\* acceptIncomingConnection, encrypt, denyInboundEncryptedConnection,
\* multiplex, denyInboundUpgradedConnection, connection:open in this order,
\* and the connection is inbound with the negotiated protocols.
C10_DenyBeforeAccept ==
    C10_Scenario =>
        /\ SubSeq(C10_Observed, 1, 7) =
               <<<<"call", "denyInboundConnection">>,
                 <<"call", "acceptIncomingConnection">>,
                 <<"stage", "encrypt">>,
                 <<"call", "denyInboundEncryptedConnection">>,
                 <<"stage", "multiplex">>,
                 <<"call", "denyInboundUpgradedConnection">>,
                 OpenEvent>>
        /\ C10_Fields

\* C10 amended: in the scenario the events are acceptIncomingConnection,
\* denyInboundConnection, encrypt, denyInboundEncryptedConnection, multiplex,
\* denyInboundUpgradedConnection, connection:open in this order, and the
\* connection is inbound with the negotiated protocols.
C10_AcceptBeforeDeny ==
    C10_Scenario =>
        /\ SubSeq(C10_Observed, 1, 7) =
               <<<<"call", "acceptIncomingConnection">>,
                 <<"call", "denyInboundConnection">>,
                 <<"stage", "encrypt">>,
                 <<"call", "denyInboundEncryptedConnection">>,
                 <<"stage", "multiplex">>,
                 <<"call", "denyInboundUpgradedConnection">>,
                 OpenEvent>>
        /\ C10_Fields

C10_Witness == C10_Scenario /\ connection.status = "open"

\* C11: on a connection with limits, an inbound stream whose protocol's
\* handler did not set runOnLimitedConnection never reaches the handler and
\* is closed once its routing is over; a stream whose protocol's handler set
\* runOnLimitedConnection is not rejected for the limits and reaches the
\* handler when its routing completes.
C11_LimitedConnectionRouting ==
    connection.limits =>
        \A s \in StreamIds :
            (streams[s].direction = "inbound" /\ streams[s].protocol # Null) =>
                IF registrar[streams[s].protocol].runOnLimitedConnection
                THEN /\ streams[s].error # "LimitedConnectionError"
                     /\ streams[s].pc = "handled" => streams[s].handled
                ELSE /\ ~streams[s].handled
                     /\ streams[s].pc # "handled"
                     /\ streams[s].pc = "failed" => streams[s].state = "closed"

\* on a limited connection one stream was rejected with LimitedConnectionError
\* and a stream of a protocol that opted in reached its handler
C11_Witness ==
    /\ connection.limits
    /\ \E s \in StreamIds :
         /\ streams[s].error = "LimitedConnectionError"
         /\ streams[s].state = "closed" /\ ~streams[s].handled
    /\ \E s \in StreamIds :
         /\ streams[s].handled
         /\ registrar[streams[s].protocol].runOnLimitedConnection

\* the upgrade got a muxer: the caller gave a factory or one was negotiated
C12_MuxerInstalled ==
    opts.muxerFactory # Null \/ Happened(<<"stage", "multiplex">>)

\* C12: the multiplexer field of a connection is set exactly when the upgrade
\* got a muxer, from the muxerFactory option or by negotiation, and then a
\* muxer was created; on a connection without muxer, in every status, every
\* newStream call has failed with MuxerUnavailableError without opening a
\* stream and getStreams is empty.
C12_MultiplexerIffMuxer ==
    connection # NoConnection =>
        /\ connection.multiplexer # Null <=> muxer # Null
        /\ muxer # Null <=> C12_MuxerInstalled
        /\ muxer = Null =>
               /\ getStreams = {}
               /\ \A s \in StreamIds :
                      streams[s] # NoStream =>
                          /\ streams[s].pc = "thrown"
                          /\ streams[s].error = "MuxerUnavailableError"
                          /\ streams[s].state # "open"

\* newStream was called on a closed connection without muxer
C12_Witness ==
    /\ connection # NoConnection /\ connection.status = "closed"
    /\ connection.multiplexer = Null
    /\ streams[1].error = "MuxerUnavailableError"

\* C13: an outbound upgrade that skips encryption takes the remote peer from
\* the remotePeer option or from the multiaddr; it does not throw
\* InvalidPeerIdError when one of them is there, and when neither is there
\* it fails, with InvalidPeerIdError once it is past the protector, having
\* called maConn.close with that error and no gater method.
C13_SkippedEncryptionPeerId ==
    (direction = "outbound" /\ opts.skipEncryption) =>
        IF opts.remotePeer # Null \/ maConn.remoteAddrPeerId # Null
        THEN /\ error.name # "InvalidPeerIdError"
             /\ maConn.closeCause.name # "InvalidPeerIdError"
             /\ pc = "returned" =>
                    connection.remotePeer \in
                        {opts.remotePeer, maConn.remoteAddrPeerId} \ {Null}
        ELSE /\ pc # "returned"
             /\ pc = "thrown" =>
                    \/ error = Err("Error", "protect")
                    \/ /\ maConn.closeCause.name = "InvalidPeerIdError"
                       /\ error \in {maConn.closeCause,
                                     Err("Error", "maConn.close")}
                       /\ \A i \in 1 .. Len(events) : events[i][1] # "call"

\* C14: an inbound upgrade that skips encryption negotiates no crypto
\* protocol and does not ask denyInboundEncryptedConnection; the connection
\* it returns has the peer of the multiaddr as remote peer and 'native' as
\* encryption; when the multiaddr names no peer it creates no Connection,
\* never gets to the muxer, and fails with InvalidMultiaddrError unless it
\* failed before the encryption block.
C14_InboundSkipEncryption ==
    (direction = "inbound" /\ opts.skipEncryption) =>
        /\ ~Happened(<<"stage", "encrypt">>)
        /\ ~Happened(<<"call", "denyInboundEncryptedConnection">>)
        /\ pc \notin {"secure", "denyInboundEncryptedConnection"}
        /\ pc = "returned" =>
               /\ maConn.remoteAddrPeerId # Null
               /\ connection.remotePeer = maConn.remoteAddrPeerId
               /\ connection.encryption = "native"
        /\ maConn.remoteAddrPeerId = Null =>
               /\ connection = NoConnection
               /\ ~Happened(<<"stage", "multiplex">>)
               /\ pc \notin {"multiplex", "denyInboundUpgradedConnection",
                             "createConnection", "returned"}
               /\ pc = "thrown" =>
                      \/ error.name = "InvalidMultiaddrError"
                      \/ error \in {Err("ConnectionDeniedError", "connection denied"),
                                    Err("Error", "acceptIncomingConnection"),
                                    ConnectionInterceptedError("acceptConnection"),
                                    Err("Error", "protect")}

\* an inbound upgrade that skips encryption has failed for the missing peer
\* id after the gater and the protector let it through
C14_Witness ==
    /\ direction = "inbound" /\ opts.skipEncryption
    /\ pc = "thrown" /\ error.name = "InvalidMultiaddrError"
    /\ Happened(<<"allow", "denyInboundConnection">>)
    /\ Happened(<<"stage", "protect">>)

C15_GaterMethods == InboundGaterMethods \cup OutboundGaterMethods

\* C15: an upgrade that one of the six gater methods denied fails with the
\* ConnectionInterceptedError that names this method (or, outbound, with the
\* error of the maConn.close that follows), and a method the gater does not
\* have is never asked and never denies.
C15_DenialNamesGaterMethod ==
    \A g \in C15_GaterMethods :
        /\ Happened(<<"deny", g>>) =>
               error \in {ConnectionInterceptedError(g),
                          Err("Error", "maConn.close")}
        /\ g \notin components.gater =>
               ~Happened(<<"call", g>>) /\ ~Happened(<<"deny", g>>)

\* C16: an inbound upgrade whose timeout fired while it was suspended has
\* aborted maConn with a TimeoutError and, once settled, has rejected with a
\* TimeoutError.
C16_TimeoutRejects ==
    (direction = "inbound" /\ timer = "fired") =>
        /\ pc # "returned" => maConn.aborted = "TimeoutError"
        /\ Settled => pc = "thrown" /\ error.name = "TimeoutError"

\* C17 as stated: an upgradeInbound that failed after acceptIncomingConnection
\* admitted the connection has closed maConn.
C17_InboundFailureClosesMaConn ==
    (direction = "inbound" /\ pc = "thrown" /\ Admitted) =>
        maConn.state # "open"

\* C17 amended: an upgradeInbound that failed has never called maConn.close;
\* maConn is closed only when the timeout aborted it or the transport closed
\* by itself, and is open otherwise.
C17_InboundFailureLeavesMaConn ==
    (direction = "inbound" /\ pc = "thrown") =>
        /\ maConn.closeCause = NoError /\ ~maConn.closeReturned
        /\ maConn.state \in {"open", "closed"}
        /\ maConn.state = "closed" <=> maConn.timelineClose
        /\ maConn.aborted = (IF timer = "fired" THEN "TimeoutError" ELSE Null)

\* the encrypted-connection gater has denied an inbound upgrade and maConn is
\* open
C17_Witness ==
    /\ direction = "inbound" /\ pc = "thrown" /\ Admitted
    /\ error = ConnectionInterceptedError("denyInboundEncryptedConnection")
    /\ maConn.state = "open"

\* the streams of protocol p that are open in the hands of their handler
C18_Handled(p) ==
    {s \in StreamIds : /\ streams[s].handled /\ streams[s].state = "open"
                       /\ streams[s].protocol = p}

\* a step in which the routing of stream s fails
C18_Fails(s) == streams[s].pc # "failed" /\ streams'[s].pc = "failed"

C19_Incoming == <<"incoming", "stream">>

\* the muxer reported a stream before connection:open was dispatched
C19_EarlyStream ==
    \E i \in Indices(C19_Incoming) : \A j \in Indices(OpenEvent) : i < j

\* C19: a stream that newStream has started to open or has returned, and an
\* inbound stream that is being negotiated, has a protocol or was handed to
\* a handler, exists only after connection:open was dispatched, and such an
\* inbound stream was reported by the muxer after that dispatch; the stream
\* the muxer reported before the Connection existed is the first one, and it
\* is never negotiated, gets no protocol and reaches no handler.
C19_OpenBeforeStreams ==
    /\ \A s \in StreamIds :
         (\/ streams[s].pc # Null \/ streams[s].protocol # Null
          \/ streams[s].handled) =>
             /\ Happened(OpenEvent)
             /\ streams[s].direction = "inbound" =>
                    \E j \in Indices(OpenEvent) :
                        \E i \in Indices(C19_Incoming) : j < i
    /\ C19_EarlyStream =>
           /\ streams[1].direction = "inbound" /\ streams[1].pc = Null
           /\ streams[1].protocol = Null /\ ~streams[1].handled

\* the muxer reported a stream while it was piped, the upgrade returned the
\* connection, and the stream is still open and not negotiated
C19_Witness ==
    /\ C19_EarlyStream /\ pc = "returned" /\ connection.status = "open"
    /\ streams[1].state = "open" /\ streams[1].pc = Null

\* C20: a dial whose signal fired during the upgrade settles by rejecting
\* with an AbortError, never by returning a Connection, and with the
\* transport no longer open and a Connection that was built no longer open.
C20_AbortedDialRejects ==
    [][(dial.pc = "upgradeOutbound" /\ dial.signal = "aborted"
        /\ dial'.pc # "upgradeOutbound") =>
           /\ dial'.pc = "thrown"
           /\ dial'.error.name = "AbortError"
           /\ maConn'.state # "open"
           /\ connection' # NoConnection => connection'.status # "open"]_vars

\* the steps at which a newStream call owns a muxed stream
C21_Negotiating == {"mss.select", "peerStore.merge"}

C22_Fails == pc' \in {"thrown", "maConn.close"}

\* what a failing step of the encryption stage, of the muxer selection and
\* of the encrypted-connection gater throws
C22_Thrown ==
    /\ (awaiting /\ pc \in {"encrypt", "secure"} /\ C22_Fails) =>
           /\ error'.name = "EncryptionFailedError"
           /\ error'.message \in {"mss.handle", "mss.select", "secureInbound",
                                  "secureOutbound"}
    /\ (awaiting /\ pc = "multiplex" /\ C22_Fails) =>
           error'.name = "MuxerUnavailableError"
    /\ (awaiting /\ C22_Fails
        /\ pc \in {"denyInboundEncryptedConnection",
                   "denyOutboundEncryptedConnection"}) =>
           error' = ConnectionInterceptedError(pc)
    /\ (direction = "inbound" /\ C22_Fails) => pc' = "thrown"

C23_Options == {Undefined, Some(0), Some(1), Some(2)}

\* the limit the claim names for a protocol and the option of the call
C23_Limit(p, options) ==
    IF registrar[p].registered /\ registrar[p].maxOutboundStreams # Undefined
    THEN registrar[p].maxOutboundStreams[1]
    ELSE IF options # Undefined THEN options[1]
    ELSE DEFAULT_MAX_OUTBOUND_STREAMS

\* C23: when getHandler throws an error other than UnhandledProtocolError,
\* findOutgoingStreamLimit throws that error; otherwise it returns the
\* handler's maxOutboundStreams when a handler is registered with it, else
\* the option of the call when given, else DEFAULT_MAX_OUTBOUND_STREAMS; and
\* a newStream call passes the limit test for a protocol only with fewer
\* streams of the protocol than this number, and never when the lookup
\* throws.
C23_OutgoingLimit ==
    /\ [](\A p \in Protocols : \A options \in C23_Options :
            IF registrar[p].getHandlerThrows # Null
            THEN findOutgoingStreamLimit(p, options) =
                     Throw(registrar[p].getHandlerThrows)
            ELSE findOutgoingStreamLimit(p, options) =
                     Return(C23_Limit(p, options)))
    /\ [][\A s \in StreamIds :
            (streams[s].pc = "mss.select"
             /\ streams'[s].pc = "peerStore.merge") =>
                LET p == streams'[s].selected
                IN  /\ registrar[p].getHandlerThrows = Null
                    /\ countStreams(p, "outbound")
                           < C23_Limit(p, streams[s].maxOutboundStreams)]_vars

\* a call with maxOutboundStreams 1 passed the limit test for a protocol
\* whose handler has no maxOutboundStreams, a second call was refused by the
\* limit, and the lookup for the other protocol throws
C23_Witness ==
    \E s, t \in StreamIds : \E p \in Protocols :
        /\ streams[s].pc = "peerStore.merge" /\ streams[s].selected = p
        /\ streams[s].maxOutboundStreams = Some(1)
        /\ registrar[p].registered /\ registrar[p].getHandlerThrows = Null
        /\ registrar[p].maxOutboundStreams = Undefined
        /\ streams[t].error \in {"TooManyOutboundProtocolStreamsError",
                                 "RegistrarError"}

C24_AbortMaConn == <<"abort", "maConn">>
C24_AbortMuxer == <<"abort", "muxer">>

C25_TimerOnlyDuringUpgrade ==
    /\ [](/\ timer = "armed" => ~Settled
          /\ timer = "expired" =>
                 Settled /\ maConn.aborted # "TimeoutError"
          /\ maConn.aborted = "TimeoutError" => timer = "fired")
    /\ [][(direction = "inbound" /\ Settled) =>
              /\ maConn'.aborted = "TimeoutError" =>
                     maConn.aborted = "TimeoutError"
              /\ timer' # timer => UNCHANGED worldVars]_vars

\* the timeout signal fired after upgradeInbound returned the connection,
\* which is still open on an open transport
C25_Witness ==
    /\ direction = "inbound" /\ timer = "expired" /\ pc = "returned"
    /\ connection.status = "open" /\ maConn.state = "open"

C26_Inbound(s) == streams[s].direction = "inbound"

\* C26: an inbound stream gets its protocol in the step in which mss.handle
\* returned it and the limit test passed, and only then is peerStore.merge
\* called; the peer store grows only by the protocol of a stream whose merge
\* returns; the handler is called only in the step in which the merge of its
\* stream returned well, which ends the routing of the stream, so at most
\* once; a stream refused by the limit has no protocol, was never merged and
\* never handled; and a stream whose merge failed is closed and not handled.
C26_RouterOrder ==
    /\ [](/\ \A s \in StreamIds :
               C26_Inbound(s) =>
                   /\ streams[s].handled =>
                          /\ streams[s].protocol \in peerStore
                          /\ streams[s].pc \in {"handled", "failed"}
                   /\ streams[s].pc = "peerStore.merge" =>
                          /\ streams[s].protocol = streams[s].selected
                          /\ streams[s].protocol \in Protocols
                   /\ streams[s].error = "TooManyInboundProtocolStreamsError"
                          => streams[s].protocol = Null /\ ~streams[s].handled
                   /\ (streams[s].error = "Error"
                       /\ streams[s].protocol # Null) =>
                          ~streams[s].handled /\ streams[s].state = "closed"
          /\ peerStore \subseteq
                 {streams[s].protocol :
                      s \in {t \in StreamIds :
                                 streams[t].pc \in {"handled", "failed"}}})
    /\ [][\A s \in StreamIds :
            C26_Inbound(s) =>
                /\ (streams[s].pc = "mss.handle"
                    /\ streams'[s].pc = "peerStore.merge") =>
                       LET p == streams'[s].protocol
                       IN  /\ p \in getProtocols
                           /\ ~TooManyInbound(countStreams(p, "inbound"),
                                              findIncomingStreamLimit(p))
                /\ (streams'[s].pc = "peerStore.merge"
                    /\ streams[s].pc # "peerStore.merge") =>
                       streams[s].pc = "mss.handle"
                /\ (streams'[s].handled /\ ~streams[s].handled) =>
                       /\ streams[s].pc = "peerStore.merge"
                       /\ streams'[s].pc \in {"handled", "failed"}
                       /\ peerStore' = peerStore \cup {streams[s].protocol}
                /\ streams[s].pc \in {"handled", "failed"} =>
                       /\ streams'[s].pc = streams[s].pc
                       /\ streams'[s].handled = streams[s].handled
                /\ peerStore' # peerStore =>
                       \E t \in StreamIds :
                           /\ streams[t].pc = "peerStore.merge"
                           /\ streams'[t].pc # "peerStore.merge"
                           /\ peerStore' = peerStore \cup {streams[t].protocol}]_vars

\* one stream reached its handler after its protocol was merged, one was
\* refused by the limit, and the merge of one failed
C26_Witness ==
    \E s, t, u \in StreamIds :
        /\ streams[s].handled /\ streams[s].protocol \in peerStore
        /\ streams[t].error = "TooManyInboundProtocolStreamsError"
        /\ streams[u].error = "Error" /\ streams[u].protocol # Null
        /\ streams[u].state = "closed" /\ ~streams[u].handled

\* C27: _connect settles once: done is called at most once, and exactly once
\* when dial is past _connect; its listeners are there only while it waits
\* for the socket; a socket handed to the caller is connected and never
\* destroyed, and a destroyed socket means the dial rejected with an
\* AbortError; a signal that fires while _connect waits destroys the socket
\* and rejects with an AbortError, a 'timeout' then rejects with the
\* TimeoutError as onError rewrites it; and after done was called no later
\* event calls it again or destroys the socket.
C27_ConnectSettlesOnce ==
    /\ [](/\ dial.settles <= 1
          /\ dial.pc \in {"upgradeOutbound", "returned", "thrown"} =>
                 dial.settles = 1 /\ ~dial.listeners
          /\ dial.listeners => dial.pc = "_connect" /\ dial.settles = 0
          /\ dial.pc \in {"upgradeOutbound", "returned"} =>
                 dial.socket = "connected"
          /\ dial.socket = "destroyed" =>
                 /\ dial.pc = "thrown" /\ dial.error = AbortError
                 /\ dial.signal = "aborted")
    /\ [][/\ (dial.pc = "_connect" /\ dial.signal = "idle"
              /\ dial'.signal = "aborted") =>
                 /\ dial'.socket = "destroyed"
                 /\ dial'.pc = "thrown" /\ dial'.error = AbortError
          /\ (dial.pc = "_connect" /\ dial'.timedOut) =>
                 /\ dial'.pc = "thrown"
                 /\ dial'.error = Err("TimeoutError",
                                      "connection error: connection timeout")
                 /\ dial'.socket = "connecting"
          /\ dial.settles >= 1 =>
                 /\ dial'.settles = dial.settles
                 /\ dial'.socket = "destroyed" => dial.socket = "destroyed"
                 /\ dial.pc = "thrown" =>
                        dial'.pc = "thrown" /\ dial'.error = dial.error]_vars

\* _connect rejected for the socket's timeout, and afterwards the socket
\* connected and the signal fired with no listener left
C27_Witness ==
    /\ dial.pc = "thrown" /\ dial.error.name = "TimeoutError"
    /\ dial.socket = "connected" /\ dial.signal = "aborted"
    /\ dial.settles = 1

====
